---- MODULE Spec2Model ----
(***************************************************************************)
(* Model of fluster/decoders/gstreamer.py: the GStreamer decoder classes,  *)
(* their registration, the pipeline builders, decode() and the memoized    *)
(* availability probe check().                                             *)
(*                                                                         *)
(* Python strings are TLA+ strings; characters are read with SubSeq.       *)
(***************************************************************************)
EXTENDS Integers, Sequences, FiniteSets, TLC

(***************************************************************************)
(* Bounds of the model.                                                    *)
(***************************************************************************)
\* number of harness calls (gen_pipeline / decode / check) in one behaviour
MaxCalls == 2

(***************************************************************************)
(* String helpers.                                                         *)
(***************************************************************************)
CharAt(s, i) == SubSeq(s, i, i)

EndsWith(s, suffix) ==
    /\ Len(s) >= Len(suffix)
    /\ SubSeq(s, Len(s) - Len(suffix) + 1, Len(s)) = suffix

StartsWith(s, prefix) ==
    /\ Len(s) >= Len(prefix)
    /\ SubSeq(s, 1, Len(prefix)) = prefix

\* Python's `sub in s`
Contains(s, sub) ==
    \E i \in 1..(Len(s) - Len(sub) + 1) : SubSeq(s, i, i + Len(sub) - 1) = sub

(***************************************************************************)
(* Collaborators that live outside gstreamer.py.                           *)
(***************************************************************************)
Platforms == {"Linux", "Windows"}

\* fluster.utils.normalize_binary_cmd: the OS form of a binary name
normalize_binary_cmd(platform, cmd) ==
    IF platform = "Windows"
    THEN IF EndsWith(cmd, ".exe") THEN cmd ELSE cmd \o ".exe"
    ELSE IF EndsWith(cmd, ".exe") THEN SubSeq(cmd, 1, Len(cmd) - 4) ELSE cmd

\* fluster.codec.Codec: the enum members used here and their .value
Codec == [H264 |-> "H.264", H265 |-> "H.265"]

\* fluster.codec.PixelFormat members
PixelFormat == {"FORMAT_I420", "FORMAT_I420_10LE"}

\* PixelFormat.to_gst(): the tool's native format token
to_gst(output_format) ==
    CASE output_format = "FORMAT_I420"      -> "I420"
      [] output_format = "FORMAT_I420_10LE" -> "I420_10LE"

(***************************************************************************)
(* The class hierarchy.  Each class lists the attributes its body sets;    *)
(* an attribute it does not set is looked up in its base class.            *)
(***************************************************************************)
\* str(None), the only way the code ever uses the base-class defaults
None == "None"

PIPELINE_TPL(a1, a2, a3, a4, a5) ==
    a1 \o " filesrc location=" \o a2 \o " ! " \o a3 \o " ! " \o a4
       \o " ! filesink location=" \o a5

GStreamer ==
    [decoder_bin |-> None, cmd |-> None, caps |-> None, gst_api |-> None,
     api |-> None, provider |-> None]

GStreamer10 ==
    [cmd |-> "gst-launch-1.0", caps |-> "video/x-raw", gst_api |-> "1.0",
     provider |-> "GStreamer"]

GStreamer010 ==
    [cmd |-> "gst-launch-0.10", caps |-> "video/x-raw-yuv", gst_api |-> "0.10",
     provider |-> "GStreamer"]

\* the classes decorated with @register_decoder, in declaration order
RegisteredClasses == <<
    [class |-> "GStreamerLibavH264", base |-> "GStreamer10",
     body |-> [codec |-> Codec.H264, decoder_bin |-> " h264parse ! avdec_h264 ",
               api |-> "Libav", hw_acceleration |-> FALSE]],
    [class |-> "GStreamerLibavH265", base |-> "GStreamer10",
     body |-> [codec |-> Codec.H265, decoder_bin |-> " h265parse ! avdec_h265 ",
               api |-> "Libav", hw_acceleration |-> FALSE]],
    [class |-> "GStreamerVaapiH265Gst10Decoder", base |-> "GStreamer10",
     body |-> [codec |-> Codec.H265, decoder_bin |-> " h265parse ! vaapih265dec ",
               api |-> "VAAPI", hw_acceleration |-> TRUE]],
    [class |-> "GStreamerMsdkH265Gst10Decoder", base |-> "GStreamer10",
     body |-> [codec |-> Codec.H265, decoder_bin |-> " h265parse ! msdkh265dec ",
               api |-> "MSDK", hw_acceleration |-> TRUE]],
    [class |-> "GStreamerNvdecH265Gst10Decoder", base |-> "GStreamer10",
     body |-> [codec |-> Codec.H265, decoder_bin |-> " h265parse ! nvh265dec ",
               api |-> "NVDEC", hw_acceleration |-> TRUE]],
    [class |-> "GStreamerD3d11H265Gst10Decoder", base |-> "GStreamer10",
     body |-> [codec |-> Codec.H265, decoder_bin |-> " h265parse ! d3d11h265dec ",
               api |-> "D3D11", hw_acceleration |-> TRUE]],
    [class |-> "GStreamerVaapiH264Gst10Decoder", base |-> "GStreamer10",
     body |-> [codec |-> Codec.H264, decoder_bin |-> " h264parse ! vaapih264dec ",
               api |-> "VAAPI", hw_acceleration |-> TRUE]],
    [class |-> "GStreamerMsdkH264Gst10Decoder", base |-> "GStreamer10",
     body |-> [codec |-> Codec.H264, decoder_bin |-> " h264parse ! msdkh264dec ",
               api |-> "MSDK", hw_acceleration |-> TRUE]],
    [class |-> "GStreamerNvdecH264Gst10Decoder", base |-> "GStreamer10",
     body |-> [codec |-> Codec.H264, decoder_bin |-> " h264parse ! nvh264dec ",
               api |-> "NVDEC", hw_acceleration |-> TRUE]],
    [class |-> "GStreamerD3d11H264Gst10Decoder", base |-> "GStreamer10",
     body |-> [codec |-> Codec.H264, decoder_bin |-> " h264parse ! d3d11h264dec ",
               api |-> "D3D11", hw_acceleration |-> TRUE]],
    [class |-> "FluendoH265Gst10Decoder", base |-> "GStreamer10",
     body |-> [codec |-> Codec.H265, decoder_bin |-> " h265parse ! fluh265dec ",
               provider |-> "Fluendo", api |-> "SW"]],
    [class |-> "FluendoH265Gst010Decoder", base |-> "GStreamer010",
     body |-> [codec |-> Codec.H265, decoder_bin |-> " h265parse ! fluh265dec ",
               provider |-> "Fluendo", api |-> "SW"]],
    [class |-> "FluendoH264Gst10Decoder", base |-> "GStreamer10",
     body |-> [codec |-> Codec.H264, decoder_bin |-> " h264parse ! fluh264dec ",
               provider |-> "Fluendo", api |-> "SW"]],
    [class |-> "FluendoH264Gst010Decoder", base |-> "GStreamer010",
     body |-> [codec |-> Codec.H264, decoder_bin |-> " fluh264dec ",
               provider |-> "Fluendo", api |-> "SW"]],
    [class |-> "FluendoH264VAGst10Decoder", base |-> "GStreamer10",
     body |-> [codec |-> Codec.H264, decoder_bin |-> " h264parse ! fluvadec ",
               provider |-> "Fluendo", api |-> "HW", hw_acceleration |-> TRUE]],
    [class |-> "FluendoH265VAGst10Decoder", base |-> "GStreamer10",
     body |-> [codec |-> Codec.H265, decoder_bin |-> " h265parse ! fluvadec ",
               provider |-> "Fluendo", api |-> "HW", hw_acceleration |-> TRUE]]
  >>

\* attribute lookup along  cls -> GStreamer10 | GStreamer010 -> GStreamer
ClassAttr(cls, attr) ==
    LET mid == IF cls.base = "GStreamer10" THEN GStreamer10 ELSE GStreamer010
    IN  IF attr \in DOMAIN cls.body THEN cls.body[attr]
        ELSE IF attr \in DOMAIN mid THEN mid[attr]
        ELSE GStreamer[attr]

\* __init__ with a name that leaves out the GStreamer API version
GStreamer__init__NoVersion(platform, cls) ==
    [class       |-> cls.class,
     base        |-> cls.base,
     codec       |-> cls.body.codec,
     decoder_bin |-> ClassAttr(cls, "decoder_bin"),
     caps        |-> ClassAttr(cls, "caps"),
     gst_api     |-> ClassAttr(cls, "gst_api"),
     api         |-> ClassAttr(cls, "api"),
     provider    |-> ClassAttr(cls, "provider"),
     name        |-> ClassAttr(cls, "provider") \o "-" \o cls.body.codec \o "-"
                       \o ClassAttr(cls, "api") \o "-Gst",
     description |-> ClassAttr(cls, "provider") \o " " \o cls.body.codec \o " "
                       \o ClassAttr(cls, "api") \o " decoder for GStreamer "
                       \o ClassAttr(cls, "gst_api"),
     cmd         |-> normalize_binary_cmd(platform, ClassAttr(cls, "cmd"))]

\* __init__ with api and codec swapped in the description
GStreamer__init__SwappedDescription(platform, cls) ==
    [class       |-> cls.class,
     base        |-> cls.base,
     codec       |-> cls.body.codec,
     decoder_bin |-> ClassAttr(cls, "decoder_bin"),
     caps        |-> ClassAttr(cls, "caps"),
     gst_api     |-> ClassAttr(cls, "gst_api"),
     api         |-> ClassAttr(cls, "api"),
     provider    |-> ClassAttr(cls, "provider"),
     name        |-> ClassAttr(cls, "provider") \o "-" \o cls.body.codec \o "-"
                       \o ClassAttr(cls, "api") \o "-Gst" \o ClassAttr(cls, "gst_api"),
     description |-> ClassAttr(cls, "provider") \o " " \o ClassAttr(cls, "api") \o " "
                       \o cls.body.codec \o " decoder for GStreamer "
                       \o ClassAttr(cls, "gst_api"),
     cmd         |-> normalize_binary_cmd(platform, ClassAttr(cls, "cmd"))]

\* GStreamer.__init__: the instance a class constructs
GStreamer__init__(platform, cls) ==
    [class       |-> cls.class,
     base        |-> cls.base,
     codec       |-> cls.body.codec,
     decoder_bin |-> ClassAttr(cls, "decoder_bin"),
     caps        |-> ClassAttr(cls, "caps"),
     gst_api     |-> ClassAttr(cls, "gst_api"),
     api         |-> ClassAttr(cls, "api"),
     provider    |-> ClassAttr(cls, "provider"),
     name        |-> ClassAttr(cls, "provider") \o "-" \o cls.body.codec \o "-"
                       \o ClassAttr(cls, "api") \o "-Gst" \o ClassAttr(cls, "gst_api"),
     description |-> ClassAttr(cls, "provider") \o " " \o cls.body.codec \o " "
                       \o ClassAttr(cls, "api") \o " decoder for GStreamer "
                       \o ClassAttr(cls, "gst_api"),
     cmd         |-> normalize_binary_cmd(platform, ClassAttr(cls, "cmd"))]

(***************************************************************************)
(* Pipeline builders.                                                      *)
(***************************************************************************)
\* the base builder negotiating the requested format like the 1.0 builder
GStreamer_gen_pipeline_WithFormat(self, input_filepath, output_filepath, output_format) ==
    PIPELINE_TPL(self.cmd, input_filepath, self.decoder_bin,
                 self.caps \o " ! videoconvert dither=none ! video/x-raw,format="
                    \o to_gst(output_format),
                 output_filepath)

\* GStreamer.gen_pipeline (inherited by GStreamer010): output_format unused
GStreamer_gen_pipeline(self, input_filepath, output_filepath, output_format) ==
    PIPELINE_TPL(self.cmd, input_filepath, self.decoder_bin, self.caps,
                 output_filepath)

\* the 1.0 builder passing the enum member instead of its to_gst() token
GStreamer10_gen_pipeline_RawFormat(self, input_filepath, output_filepath, output_format) ==
    LET caps == self.caps \o " ! videoconvert dither=none ! video/x-raw,format="
                    \o output_format
    IN  PIPELINE_TPL(self.cmd, input_filepath, self.decoder_bin, caps,
                     output_filepath)

\* GStreamer10.gen_pipeline
GStreamer10_gen_pipeline(self, input_filepath, output_filepath, output_format) ==
    LET caps == self.caps \o " ! videoconvert dither=none ! video/x-raw,format="
                    \o to_gst(output_format)
    IN  PIPELINE_TPL(self.cmd, input_filepath, self.decoder_bin, caps,
                     output_filepath)

\* method resolution of self.gen_pipeline(...)
gen_pipeline(self, input_filepath, output_filepath, output_format) ==
    IF self.base = "GStreamer10"
    THEN GStreamer10_gen_pipeline(self, input_filepath, output_filepath, output_format)
    ELSE GStreamer_gen_pipeline(self, input_filepath, output_filepath, output_format)

(***************************************************************************)
(* shlex.split(s): POSIX-mode lexer with whitespace_split, no comments.    *)
(* state is " " (between tokens), "a" (in a word), a quote character, or   *)
(* the escape character; the result carries the ValueError the lexer       *)
(* raises on an unterminated quotation or a dangling escape.  A run of     *)
(* characters that the lexer handles alike is consumed in one step.        *)
(***************************************************************************)
Whitespace == {" ", "\t", "\r", "\n"}
Quotes == {"'", "\""}
Escape == "\\"

\* end of the run of characters outside `stops` that starts at i:
\* the first index >= i holding a character of `stops`, or Len(s) + 1
RunEnd(s, i, stops) ==
    CHOOSE j \in i..(Len(s) + 1) :
        /\ j = Len(s) + 1 \/ CharAt(s, j) \in stops
        /\ \A m \in i..(j - 1) : CharAt(s, m) \notin stops

\* end of the run of whitespace that starts at i
BlankEnd(s, i) ==
    CHOOSE j \in i..(Len(s) + 1) :
        /\ j = Len(s) + 1 \/ CharAt(s, j) \notin Whitespace
        /\ \A m \in i..(j - 1) : CharAt(s, m) \in Whitespace

RECURSIVE read_tokens(_, _, _, _, _, _, _)
read_tokens(s, i, state, escapedstate, token, quoted, out) ==
    IF i > Len(s)
    THEN IF state \in Quotes
         THEN [error |-> "ValueError", argv |-> <<>>]  \* No closing quotation
         ELSE IF state = Escape
         THEN [error |-> "ValueError", argv |-> <<>>]  \* No escaped character
         ELSE [error |-> "",
               argv  |-> IF token /= "" \/ quoted THEN Append(out, token) ELSE out]
    ELSE LET nextchar == CharAt(s, i) IN
         IF state = " "
         THEN IF nextchar \in Whitespace
              THEN read_tokens(s, BlankEnd(s, i), " ", escapedstate, token,
                               quoted, out)
              ELSE IF nextchar = Escape
              THEN read_tokens(s, i + 1, Escape, "a", token, quoted, out)
              ELSE IF nextchar \in Quotes
              THEN read_tokens(s, i + 1, nextchar, escapedstate, token, quoted, out)
              ELSE LET j == RunEnd(s, i, Whitespace \cup Quotes \cup {Escape})
                   IN  read_tokens(s, j, "a", escapedstate, SubSeq(s, i, j - 1),
                                   quoted, out)
         ELSE IF state \in Quotes
         THEN IF nextchar = state
              THEN read_tokens(s, i + 1, "a", escapedstate, token, TRUE, out)
              ELSE IF nextchar = Escape /\ state = "\""
              THEN read_tokens(s, i + 1, Escape, state, token, TRUE, out)
              ELSE LET j == RunEnd(s, i, IF state = "\"" THEN {state, Escape}
                                         ELSE {state})
                   IN  read_tokens(s, j, state, escapedstate,
                                   token \o SubSeq(s, i, j - 1), TRUE, out)
         ELSE IF state = Escape
         THEN LET kept == IF /\ escapedstate \in Quotes
                             /\ nextchar /= state
                             /\ nextchar /= escapedstate
                          THEN token \o state ELSE token
              IN  read_tokens(s, i + 1, escapedstate, escapedstate,
                              kept \o nextchar, quoted, out)
         ELSE \* state = "a"
              IF nextchar \in Whitespace
              THEN read_tokens(s, i + 1, " ", escapedstate, "", FALSE,
                               IF token /= "" \/ quoted THEN Append(out, token)
                               ELSE out)
              ELSE IF nextchar \in Quotes
              THEN read_tokens(s, i + 1, nextchar, escapedstate, token, quoted, out)
              ELSE IF nextchar = Escape
              THEN read_tokens(s, i + 1, Escape, "a", token, quoted, out)
              ELSE LET j == RunEnd(s, i, Whitespace \cup Quotes \cup {Escape})
                   IN  read_tokens(s, j, "a", escapedstate,
                                   token \o SubSeq(s, i, j - 1), quoted, out)

shlex_split(s) == read_tokens(s, 1, " ", " ", "", FALSE, <<>>)

(***************************************************************************)
(* Collaborators of decode() and check(): the process runner, the file     *)
(* system it writes to, and the checksum utility.                          *)
(***************************************************************************)
\* what run_command can do: return, or raise one of these
RunErrors == {"ProcessError", "TimeoutError", "FileNotFoundError"}
RunOutcomes == {"ok"} \cup RunErrors

\* byte sequences the external tool may leave in its sink file
Contents == {<<1, 2>>, <<2, 1>>}

\* digest over the bytes of a file
RECURSIVE Digest(_, _)
Digest(bytes, h) ==
    IF bytes = <<>> THEN h
    ELSE Digest(Tail(bytes), (h * 31 + Head(bytes)) % 65536)

\* fluster.utils.file_checksum(path) on the file system fs
file_checksum(fs, path) ==
    IF path \in DOMAIN fs
    THEN [kind |-> "return", val |-> Digest(fs[path], 7)]
    ELSE [kind |-> "raise", val |-> "IOError"]

\* the file the tool's filesink element writes: the location= property
\* of the token after "filesink" in argv ("" when there is none)
SinkLocation(argv) ==
    LET hits == {j \in 1..(Len(argv) - 1) :
                    /\ argv[j] = "filesink"
                    /\ StartsWith(argv[j + 1], "location=")}
    IN  IF hits = {} THEN ""
        ELSE LET j == CHOOSE k \in hits : \A m \in hits : k <= m
             IN  SubSeq(argv[j + 1], Len("location=") + 1, Len(argv[j + 1]))

(***************************************************************************)
(* Inputs of the harness calls.                                            *)
(***************************************************************************)
InputPaths == {"in.bin", "it's.bin"}
OutputPaths == {"out.raw", "my out.raw"}
Timeouts == {5, 30}

\* a decoder class a test declares to exercise the modern builder:
\* command tool-1.0, the Libav H.264 fragment, caps video/x-raw
ExampleClass ==
    [class |-> "ExampleDecoder", base |-> "GStreamer10",
     body |-> [codec |-> Codec.H264, decoder_bin |-> " h264parse ! avdec_h264 ",
               cmd |-> "tool-1.0", api |-> "Libav"]]

\* the probe pipeline check builds
probe_pipeline(platform, self) ==
    normalize_binary_cmd(platform, "gst-launch-" \o self.gst_api)
        \o " appsrc num-buffers=0 ! " \o self.decoder_bin \o " ! fakesink"


(***************************************************************************)
(* State.                                                                  *)
(***************************************************************************)
VARIABLES
    platform,   \* the OS the process runs on
    objects,    \* decoder instances by identity; 0 is the example instance
    DECODERS,   \* the registry: identities in registration order
    dut,        \* the registered decoder this run of the harness uses (0: none yet)
    cache,      \* lru_cache of check: (self, verbose) -> result
    files,      \* file system: path -> bytes
    pc,         \* "idle", the external call the thread is blocked in, or "returned"
    call,       \* the harness call in progress or just completed
    run,        \* the run_command invocation of the current call
    ret,        \* what the call just completed returned or raised
    nruns,      \* run_command invocations made by the current call
    nsums,      \* file_checksum invocations made by the current call
    ncalls,     \* harness calls made so far
    probes,     \* spy: run_command invocations per (self, verbose) made by check
    first       \* spy: the first result check returned per (self, verbose)

vars == <<platform, objects, DECODERS, dut, cache, files, pc, call, run, ret,
          nruns, nsums, ncalls, probes, first>>

NoCall == [op |-> "none", self |-> 0, input |-> "", output |-> "",
           format |-> "", timeout |-> None, verbose |-> FALSE]
NoRun == [argv |-> <<>>, timeout |-> None, verbose |-> FALSE,
          outcome |-> "none", wrote |-> ""]
NoRet == [kind |-> "none", val |-> None]
EmptyMap == [k \in {} |-> FALSE]

Loaded == Len(DECODERS) = Len(RegisteredClasses)

Init ==
    /\ platform \in Platforms
    /\ objects = (0 :> GStreamer__init__(platform, ExampleClass))
    /\ DECODERS = <<>>
    /\ dut = 0
    /\ cache = EmptyMap
    /\ files = EmptyMap
    /\ pc = "idle"
    /\ call = NoCall
    /\ run = NoRun
    /\ ret = NoRet
    /\ nruns = 0
    /\ nsums = 0
    /\ ncalls = 0
    /\ probes = EmptyMap
    /\ first = EmptyMap

(***************************************************************************)
(* Module load: each @register_decoder instantiates the class and adds     *)
(* the instance to the registry, in declaration order.                     *)
(***************************************************************************)
Register ==
    /\ ~Loaded
    /\ LET id == Len(DECODERS) + 1 IN
       /\ objects' = objects @@ (id :> GStreamer__init__(platform, RegisteredClasses[id]))
       /\ DECODERS' = Append(DECODERS, id)
    /\ UNCHANGED <<platform, dut, cache, files, pc, call, run, ret, nruns, nsums,
                   ncalls, probes, first>>

\* the harness looks up the decoder it will use
Select(self) ==
    /\ Loaded
    /\ dut = 0
    /\ dut' = self
    /\ UNCHANGED <<platform, objects, DECODERS, cache, files, pc, call, run, ret,
                   nruns, nsums, ncalls, probes, first>>

CanCall == dut /= 0 /\ pc = "idle" /\ ncalls < MaxCalls

\* the harness takes the result of the completed call
Return ==
    /\ pc = "returned"
    /\ pc' = "idle"
    /\ call' = NoCall
    /\ run' = NoRun
    /\ ret' = NoRet
    /\ nruns' = 0
    /\ nsums' = 0
    /\ UNCHANGED <<platform, objects, DECODERS, dut, cache, files, ncalls,
                   probes, first>>

\* gen_pipeline storing the extended caps string on the instance
GenPipelineCall_StoresCaps(self, input_filepath, output_filepath, output_format) ==
    /\ CanCall
    /\ call' = [op |-> "gen_pipeline", self |-> self, input |-> input_filepath,
                output |-> output_filepath, format |-> output_format,
                timeout |-> None, verbose |-> FALSE]
    /\ ret' = [kind |-> "return",
               val |-> gen_pipeline(objects[self], input_filepath,
                                    output_filepath, output_format)]
    /\ objects' = [objects EXCEPT ![self].caps =
                      @ \o " ! videoconvert dither=none ! video/x-raw,format="
                        \o to_gst(output_format)]
    /\ pc' = "returned"
    /\ ncalls' = ncalls + 1
    /\ UNCHANGED <<platform, DECODERS, dut, cache, files, run, nruns,
                   nsums, probes, first>>

(***************************************************************************)
(* self.gen_pipeline(input_filepath, output_filepath, output_format)       *)
(***************************************************************************)
GenPipelineCall(self, input_filepath, output_filepath, output_format) ==
    /\ CanCall
    /\ call' = [op |-> "gen_pipeline", self |-> self, input |-> input_filepath,
                output |-> output_filepath, format |-> output_format,
                timeout |-> None, verbose |-> FALSE]
    /\ ret' = [kind |-> "return",
               val |-> gen_pipeline(objects[self], input_filepath,
                                    output_filepath, output_format)]
    /\ pc' = "returned"
    /\ ncalls' = ncalls + 1
    /\ UNCHANGED <<platform, objects, DECODERS, dut, cache, files, run, nruns,
                   nsums, probes, first>>

(***************************************************************************)
(* self.decode(input_filepath, output_filepath, output_format, timeout,    *)
(* verbose) up to the point where run_command is entered.                  *)
(***************************************************************************)
DecodeCall(self, input_filepath, output_filepath, output_format, timeout, verbose) ==
    /\ CanCall
    /\ call' = [op |-> "decode", self |-> self, input |-> input_filepath,
                output |-> output_filepath, format |-> output_format,
                timeout |-> timeout, verbose |-> verbose]
    /\ ncalls' = ncalls + 1
    /\ LET pipeline == gen_pipeline(objects[self], input_filepath,
                                    output_filepath, output_format)
           args == shlex_split(pipeline)
       IN  IF args.error /= ""
           THEN \* shlex.split raised: decode raises before run_command
                /\ ret' = [kind |-> "raise", val |-> args.error]
                /\ pc' = "returned"
                /\ UNCHANGED <<run, nruns>>
           ELSE /\ run' = [argv |-> args.argv, timeout |-> timeout,
                           verbose |-> verbose, outcome |-> "pending",
                           wrote |-> ""]
                /\ nruns' = nruns + 1
                /\ pc' = "decode_run"
                /\ UNCHANGED ret
    /\ UNCHANGED <<platform, objects, DECODERS, dut, cache, files, nsums,
                   probes, first>>

\* decode checksumming the output whatever run_command did
decode_after_run_AlwaysChecksum(outcome, fs, input_filepath, output_filepath) ==
    IF outcome = "ok"
    THEN [ret |-> file_checksum(fs, output_filepath), nsums |-> 1]
    ELSE [ret |-> [kind |-> "raise", val |-> outcome], nsums |-> 1]

\* decode checksumming the input file instead of the output file
decode_after_run_ChecksumInput(outcome, fs, input_filepath, output_filepath) ==
    IF outcome = "ok"
    THEN [ret |-> file_checksum(fs, input_filepath), nsums |-> 1]
    ELSE [ret |-> [kind |-> "raise", val |-> outcome], nsums |-> 0]

\* the rest of decode once run_command has returned or raised
decode_after_run(outcome, fs, input_filepath, output_filepath) ==
    IF outcome = "ok"
    THEN [ret |-> file_checksum(fs, output_filepath), nsums |-> 1]
    ELSE [ret |-> [kind |-> "raise", val |-> outcome], nsums |-> 0]

(***************************************************************************)
(* run_command returns to decode.  The tool has written its sink file      *)
(* when it exited with success; it may have written it when it was killed  *)
(* on timeout.                                                             *)
(***************************************************************************)
DecodeRunReturns(outcome, writes, content) ==
    /\ pc = "decode_run"
    /\ outcome = "ok" => writes
    /\ outcome \in {"FileNotFoundError", "ProcessError"} => ~writes
    /\ LET sink == SinkLocation(run.argv)
           wrote == IF writes THEN sink ELSE ""
           fs == IF wrote /= "" THEN (wrote :> content) @@ files ELSE files
           rest == decode_after_run(outcome, fs, call.input, call.output)
       IN  /\ files' = fs
           /\ run' = [run EXCEPT !.outcome = outcome, !.wrote = wrote]
           /\ ret' = rest.ret
           /\ nsums' = nsums + rest.nsums
    /\ pc' = "returned"
    /\ UNCHANGED <<platform, objects, DECODERS, dut, cache, call, nruns, ncalls,
                   probes, first>>

(***************************************************************************)
(* self.check(verbose), wrapped by @lru_cache(maxsize=None): the cache is  *)
(* keyed by the call's arguments (self, verbose).                          *)
(***************************************************************************)
\* exceptions that `except Exception` catches
Exception == RunErrors \cup {"ValueError", "IOError"}

lru_cache_hit(c, key) == key \in DOMAIN c

\* a cache that keeps successful probes only
lru_cache_store_OnlyTrue(c, key, result) ==
    IF result THEN (key :> result) @@ c ELSE c

lru_cache_store(c, key, result) == (key :> result) @@ c

\* a handler that catches the non-zero exit only
check_try_OnlyProcessError(outcome) ==
    IF outcome = "ProcessError"
    THEN [kind |-> "return", val |-> FALSE]
    ELSE IF outcome \in Exception
    THEN [kind |-> "raise", val |-> outcome]
    ELSE [kind |-> "return", val |-> TRUE]

\* the try/except of check around an attempt that ended with `outcome`
check_try(outcome) ==
    IF outcome \in Exception
    THEN [kind |-> "return", val |-> FALSE]
    ELSE [kind |-> "return", val |-> TRUE]

\* check's body has finished with r: lru_cache stores a returned value
CheckFinish(key, r) ==
    /\ ret' = r
    /\ cache' = IF r.kind = "return" THEN lru_cache_store(cache, key, r.val)
                ELSE cache
    /\ first' = IF r.kind = "return" /\ key \notin DOMAIN first
                THEN (key :> r.val) @@ first ELSE first
    /\ pc' = "returned"

CheckCall(self, verbose) ==
    /\ CanCall
    /\ call' = [op |-> "check", self |-> self, input |-> "", output |-> "",
                format |-> "", timeout |-> None, verbose |-> verbose]
    /\ ncalls' = ncalls + 1
    /\ LET key == <<self, verbose>> IN
       IF lru_cache_hit(cache, key)
       THEN /\ ret' = [kind |-> "return", val |-> cache[key]]
            /\ pc' = "returned"
            /\ UNCHANGED <<cache, first, run, nruns, probes>>
       ELSE LET args == shlex_split(probe_pipeline(platform, objects[self]))
            IN  IF args.error /= ""
                THEN /\ CheckFinish(key, check_try(args.error))
                     /\ UNCHANGED <<run, nruns, probes>>
                ELSE /\ run' = [argv |-> args.argv, timeout |-> None,
                                verbose |-> verbose, outcome |-> "pending",
                                wrote |-> ""]
                     /\ nruns' = nruns + 1
                     /\ probes' = (key :> (IF key \in DOMAIN probes
                                           THEN probes[key] + 1 ELSE 1)) @@ probes
                     /\ pc' = "check_run"
                     /\ UNCHANGED <<cache, first, ret>>
    /\ UNCHANGED <<platform, objects, DECODERS, dut, files, nsums>>

\* run_command returns to check
CheckRunReturns(outcome) ==
    /\ pc = "check_run"
    /\ run' = [run EXCEPT !.outcome = outcome]
    /\ CheckFinish(<<call.self, call.verbose>>, check_try(outcome))
    /\ UNCHANGED <<platform, objects, DECODERS, dut, files, call, nruns, nsums,
                   ncalls, probes>>

(***************************************************************************)
(* Specification.                                                          *)
(***************************************************************************)
Registered == 1..Len(DECODERS)

SelectStep == \E self \in Registered : Select(self)

GenPipelineStep ==
    \E self \in {0, dut}, i \in InputPaths, o \in OutputPaths,
       f \in PixelFormat : GenPipelineCall(self, i, o, f)

DecodeStep ==
    \E i \in InputPaths, o \in OutputPaths, f \in PixelFormat,
       t \in Timeouts, v \in BOOLEAN : DecodeCall(dut, i, o, f, t, v)

DecodeRunStep ==
    \E outcome \in RunOutcomes, writes \in BOOLEAN, content \in Contents :
        DecodeRunReturns(outcome, writes, content)

CheckStep == \E v \in BOOLEAN : CheckCall(dut, v)

CheckRunStep == \E outcome \in RunOutcomes : CheckRunReturns(outcome)

Next ==
    \/ Register
    \/ SelectStep
    \/ GenPipelineStep
    \/ DecodeStep
    \/ DecodeRunStep
    \/ CheckStep
    \/ CheckRunStep
    \/ Return

Spec == Init /\ [][Next]_vars

(***************************************************************************)
(* Properties.                                                             *)
(***************************************************************************)
Returned(op) == pc = "returned" /\ call.op = op

CallKey == <<call.self, call.verbose>>

\* C1: check never raises: a completed check call has returned a boolean,
\* and when it ran the probe it returned TRUE exactly when run_command
\* completed without error, FALSE for every failure of the runner.
C1_CheckNeverRaises ==
    Returned("check") =>
        /\ ret.kind = "return"
        /\ ret.val \in BOOLEAN
        /\ nruns = 1 => (ret.val <=> run.outcome = "ok")

C1_Witness ==
    /\ Returned("check")
    /\ nruns = 1
    /\ run.outcome = "TimeoutError"
    /\ ret = [kind |-> "return", val |-> FALSE]

C3_NoChecksumAfterFailure ==
    /\ nsums > 0 => run.outcome = "ok"
    /\ (Returned("decode") /\ run.outcome \in RunErrors) =>
          /\ ret = [kind |-> "raise", val |-> run.outcome]
          /\ nsums = 0

C3_Witness ==
    /\ Returned("decode")
    /\ run.outcome = "TimeoutError"
    /\ run.wrote = call.output
    /\ call.output \in DOMAIN files
    /\ ret = [kind |-> "raise", val |-> "TimeoutError"]
    /\ nsums = 0

\* C4: when the runner succeeds and writes bytes to the output path, decode
\* returns the checksum of the content of the file at that path as it is
\* after the run.
C4_DecodeReturnsChecksum ==
    (/\ Returned("decode")
     /\ run.outcome = "ok"
     /\ run.wrote = call.output) =>
        /\ call.output \in DOMAIN files
        /\ ret = [kind |-> "return", val |-> Digest(files[call.output], 7)]
        /\ SinkLocation(run.argv) = call.output

C4_Witness ==
    /\ Returned("decode")
    /\ ncalls = 2
    /\ run.outcome = "ok"
    /\ run.wrote = call.output
    /\ files[call.output] = <<2, 1>>
    /\ ret = [kind |-> "return", val |-> Digest(<<2, 1>>, 7)]

\* the case of C5: the modern builder called with (in.bin, out.raw,
\* FORMAT_I420) on a descriptor with command tool-1.0, the Libav H.264
\* fragment and caps video/x-raw
C5_Case ==
    /\ Returned("gen_pipeline")
    /\ objects[call.self].base = "GStreamer10"
    /\ objects[call.self].cmd = "tool-1.0"
    /\ objects[call.self].decoder_bin = " h264parse ! avdec_h264 "
    /\ objects[call.self].caps = "video/x-raw"
    /\ call.input = "in.bin"
    /\ call.output = "out.raw"
    /\ call.format = "FORMAT_I420"

\* C5 as stated: the pipeline has single spaces around the decoder fragment
C5_Original ==
    C5_Case =>
        ret.val = "tool-1.0 filesrc location=in.bin ! h264parse ! avdec_h264 ! video/x-raw ! videoconvert dither=none ! video/x-raw,format=I420 ! filesink location=out.raw"

\* C5: in that case the generated pipeline is exactly the template with
\* the fragment substituted verbatim, so the fragment's own leading and
\* trailing space follow and precede the template's: two spaces on each
\* side of "h264parse ! avdec_h264".
C5_ModernPipeline ==
    C5_Case =>
        ret.val = "tool-1.0 filesrc location=in.bin !  h264parse ! avdec_h264  ! video/x-raw ! videoconvert dither=none ! video/x-raw,format=I420 ! filesink location=out.raw"

C5_Witness ==
    /\ C5_Case
    /\ ret.kind = "return"
    /\ Contains(ret.val, "!  h264parse ! avdec_h264  !")

\* C6: the legacy builder ignores the output format: the pipeline has the
\* shape <command> filesrc location=<input> ! <fragment> ! <caps> !
\* filesink location=<output>, has no videoconvert or format stage, and is
\* the same for every output format.
C6_LegacyIgnoresFormat ==
    (Returned("gen_pipeline") /\ objects[call.self].base = "GStreamer010") =>
        LET self == objects[call.self] IN
        /\ ret.val = self.cmd \o " filesrc location=" \o call.input \o " ! "
                        \o self.decoder_bin \o " ! " \o self.caps
                        \o " ! filesink location=" \o call.output
        /\ ~Contains(ret.val, "videoconvert")
        /\ ~Contains(ret.val, "format=")
        /\ \A f \in PixelFormat :
              gen_pipeline(self, call.input, call.output, f) = ret.val

C6_Witness ==
    /\ Returned("gen_pipeline")
    /\ objects[call.self].base = "GStreamer010"
    /\ call.format = "FORMAT_I420_10LE"
    /\ Contains(ret.val, "video/x-raw-yuv ! filesink")

\* C7: no two distinct registered decoders have the same name.
C7_NamesUnique ==
    \A i, j \in Registered :
        i /= j => objects[DECODERS[i]].name /= objects[DECODERS[j]].name

C7_Witness ==
    /\ Loaded
    /\ Cardinality({objects[DECODERS[i]].name : i \in Registered}) = 16

\* C8: every registered decoder's name is <provider>-<codec>-<api>-Gst<version>
\* and its description is <provider> <codec> <api> decoder for GStreamer
\* <version>, from its own attributes.
C8_NameAndDescription ==
    \A i \in Registered :
        LET self == objects[DECODERS[i]] IN
        /\ self.name = self.provider \o "-" \o self.codec \o "-" \o self.api
                          \o "-Gst" \o self.gst_api
        /\ self.description = self.provider \o " " \o self.codec \o " "
                          \o self.api \o " decoder for GStreamer " \o self.gst_api

C8_Witness ==
    /\ Loaded
    /\ objects[DECODERS[12]].name = "Fluendo-H.265-SW-Gst0.10"
    /\ objects[DECODERS[1]].description = "GStreamer H.264 Libav decoder for GStreamer 1.0"

\* C9: a gen_pipeline call returns the string that generating the pipeline
\* again with the same inputs yields, invokes neither the runner nor the
\* checksum utility, and leaves the instances, the registry, the
\* availability cache and the files unchanged.
C9_GenPipelinePure ==
    [][(call'.op = "gen_pipeline" /\ ncalls' = ncalls + 1) =>
          /\ ret'.kind = "return"
          /\ ret'.val = gen_pipeline(objects'[call'.self], call'.input,
                                     call'.output, call'.format)
          /\ UNCHANGED <<objects, DECODERS, cache, files, run, nruns, nsums,
                         probes>>]_vars

C9_Witness ==
    /\ Returned("gen_pipeline")
    /\ call.self = dut
    /\ cache /= EmptyMap
    /\ ret.kind = "return"

\* C10 as stated: each decode call invokes the runner exactly once, with the
\* caller's timeout and verbose, and a failure of the runner or of the
\* checksum step reaches the caller unchanged.
C10_Original ==
    Returned("decode") =>
        /\ nruns = 1
        /\ run.timeout = call.timeout
        /\ run.verbose = call.verbose
        /\ run.outcome \in RunErrors => ret = [kind |-> "raise", val |-> run.outcome]
        /\ run.outcome = "ok" => ret = file_checksum(files, call.output)

====
